---------------------------- MODULE Spec2Model ----------------------------
(***************************************************************************)
(* Model of src/lib/mra/derivative.h (MADNESS): the boundary-condition     *)
(* object BoundaryConds, the neighbour resolver enforce_bc / neighbor and  *)
(* the distributed tree traversal TreeTraversal / Derivative that          *)
(* differentiates a function held as an adaptively refined tree.           *)
(*                                                                         *)
(* The specifications of the module:                                       *)
(*   Spec      the traversal started by operator()(f, fence) on each worker*)
(*   SpecBC    BoundaryConds objects under their public operations         *)
(*   SpecValid the validation of one tensor by constructor and assignment  *)
(*   SpecNb    neighbor(key, step) applied to bounded inputs               *)
(*   SpecVec   the vector form operator()(vector, fence)                   *)
(*   SpecCtor  the constructors and initCoefficients                       *)
(***************************************************************************)
EXTENDS Integers, Sequences, FiniteSets, Bags, TLC

VARIABLES
    \* ---- traversal (Spec) ----
    srcInternal,   \* source tree: the keys of its internal nodes
    pmap,          \* process map of the source and destination trees
    compressed,    \* source representation state (f.is_compressed())
    fence,         \* the fence argument of operator()
    bc,            \* <<bc(axis,0), bc(axis,1)>> of the operator's BoundaryConds
    axis,          \* the operator's axis (0-based, as in the code)
    hasG,          \* <<g1 supplied, g2 supplied>> at Derivative construction
    pc,            \* pc[p]: where worker p is inside operator()
    tasks,         \* bag of tasks scheduled and not yet completed
    df,            \* destination tree: key -> the node stored there
    wlog,          \* key -> sequence of replace_coeff writers
    fault,         \* "none" or the fatal fault that stopped the computation
    \* ---- BoundaryConds (SpecBC) ----
    bcobj,         \* bcobj[o]: tensor held by object o, or NoObj
    bcArg,         \* tensor operand under test (SpecValid), else "none"
    bclast,        \* the last BoundaryConds operation and whether it threw
    \* ---- neighbor (SpecNb) ----
    nbIn,          \* input of the neighbor call
    nbOut,         \* its result, or NoCall before the call
    nbBack,        \* result of the step back from nbOut, or NoCall
    \* ---- vector form of apply (SpecVec) ----
    vf,            \* the vector: vf[i] is whether element i is compressed
    vfence,        \* the fence argument of the vector form
    vi,            \* loop index i: the number of elements submitted so far
    vpc,           \* where the vector form is
    vstat,         \* vstat[i]: what became of the scalar call on element i
    vlog,          \* the global fences the vector form has completed
    \* ---- the operator object ----
    opclass,       \* "TreeTraversal" or "Derivative"
    k,             \* number of wavelets of the function
    stencil,       \* rm, r0, rp, left_rm, left_r0, right_r0, right_rp,
                   \* bv_left, bv_right
    ninit,         \* how many times initCoefficients has run
    \* ---- construction (SpecCtor) ----
    ctor,          \* where the constructor is
    dconst         \* do_diff2i applied to three equal constant blocks

opVars   == <<opclass, k, bc, axis, hasG, stencil, ninit>>
travVars == <<srcInternal, pmap, compressed, fence, opVars, pc, tasks, df,
              wlog, fault>>
bcVars   == <<bcobj, bcArg, bclast>>
nbVars   == <<nbIn, nbOut, nbBack>>
vecVars  == <<vf, vfence, vi, vpc, vstat, vlog>>
ctorVars == <<ctor, dconst>>
vars     == <<travVars, bcVars, nbVars, vecVars, ctorVars>>

\* what the actions of one specification leave alone
notTrav  == <<bcVars, nbVars, vecVars, ctorVars>>
notBC    == <<travVars, nbVars, vecVars, bcArg, ctorVars>>
notNb    == <<travVars, bcVars, vecVars, ctorVars>>
notVec   == <<travVars, bcVars, nbVars, ctorVars>>
notCtor  == <<srcInternal, pmap, compressed, fence, pc, tasks, df, wlog,
              bcVars, nbVars, vecVars>>

-----------------------------------------------------------------------------
(* Bounds of the model and program constants                                *)

\* template parameter NDIM of BoundaryConds / TreeTraversal
NDIM == 1

\* largest number of leaves of a source tree
MaxLeaves == 3

\* the worker processes (world.rank() of each)
Procs == {0, 1}

NProc == Cardinality(Procs)

\* deepest level of a key handed to neighbor in SpecNb
MaxNbLevel == 2

\* boundary codes beyond the valid range 0..5 tried as inputs
CodeInputs == -1 .. 6

ValidCodes == 0 .. 5

-----------------------------------------------------------------------------
(* Keys (mra/key.h): level n and translation l, one entry per dimension.   *)
(* Sequences are 1-based: the code's l[axis] is l[axis + 1] here.          *)

RECURSIVE Pow2(_)
Pow2(n) == IF n <= 0 THEN 1 ELSE 2 * Pow2(n - 1)

Key(n, l) == [n |-> n, l |-> l]

\* keyT::invalid()
Invalid == [n |-> -1, l |-> <<>>]

is_invalid(key) == key.n = -1

parent(key) == Key(key.n - 1, [i \in DOMAIN key.l |-> key.l[i] \div 2])

\* KeyChildIterator: the 2^D children of key
Children(key) ==
    { Key(key.n + 1, [i \in DOMAIN key.l |-> 2 * key.l[i] + b[i]]) :
        b \in [DOMAIN key.l -> {0, 1}] }

-----------------------------------------------------------------------------
(* BoundaryConds<NDIM>                                                      *)

\* Tensor<int>: ndim, dim[0..ndim-1] and the elements in row-major order
Tensor2(r, c, a) == [ndim |-> 2, dim |-> <<r, c>>, a |-> a]

\* Tensor<int>(r, c).fill(code)
Fill(r, c, code) == Tensor2(r, c, [x \in 1 .. (r * c) |-> code])

\* Tensor::dim(i): dimensions past ndim read as 1
Dim(t, i) == IF i < t.ndim THEN t.dim[i + 1] ELSE 1

\* position of element (i, j) of a 2-d tensor, i and j 0-based as in the code
Idx(t, i, j) == i * t.dim[2] + j + 1

\* element bc(i, j)
At(t, i, j) == t.a[Idx(t, i, j)]

is_valid_bc_code(code) == (0 <= code) /\ (code <= 5)

is_valid_bc(t) ==
    IF Dim(t, 0) # NDIM \/ Dim(t, 1) # 2 \/ t.ndim # 2
    THEN FALSE
    ELSE \A i \in 0 .. (NDIM - 1) :
            /\ is_valid_bc_code(At(t, i, 0)) /\ is_valid_bc_code(At(t, i, 1))
            /\ ~(At(t, i, 0) = 1 /\ At(t, i, 1) # 1)

\* what the class documents a valid matrix to be: shape NDIM x 2, every code
\* in 0..5, periodic codes paired in every dimension
WellFormedBC(t) ==
    /\ t.ndim = 2
    /\ t.dim = <<NDIM, 2>>
    /\ \A i \in 0 .. (NDIM - 1) :
          /\ At(t, i, 0) \in ValidCodes /\ At(t, i, 1) \in ValidCodes
          /\ (At(t, i, 0) = 1) <=> (At(t, i, 1) = 1)

\* tensors handed to the tensor constructor and to operator=(Tensor)
ShapedInputs ==
    { Tensor2(NDIM, 2, a) : a \in [1 .. (2 * NDIM) -> CodeInputs] }

MisshapedInputs ==
    UNION { { Fill(NDIM, 3, c), Fill(NDIM + 1, 2, c), Fill(NDIM, 1, c),
              [ndim |-> 1, dim |-> <<2>>, a |-> <<c, c>>],
              [ndim |-> 3, dim |-> <<NDIM, 2, 1>>,
               a |-> [x \in 1 .. (2 * NDIM) |-> c]] } : c \in {0, 1} }

TensorInputs == ShapedInputs \cup MisshapedInputs

Objs == {1, 2}

\* no object: nothing constructed yet, or destroyed
NoObj == [ndim |-> 0, dim |-> <<>>, a |-> <<>>]

BCOutcome(op, o, exc) == [op |-> op, o |-> o, exc |-> exc]

\* BoundaryConds(int code = 1)
CtorCode(o, code) ==
    /\ bcobj[o] = NoObj
    /\ IF ~is_valid_bc_code(code)
       THEN /\ bclast' = BCOutcome("ctor_code", o, TRUE)
            /\ UNCHANGED bcobj
       ELSE /\ bcobj' = [bcobj EXCEPT ![o] = Fill(NDIM, 2, code)]
            /\ bclast' = BCOutcome("ctor_code", o, FALSE)

\* BoundaryConds(const BoundaryConds& other): deep copy, no validation
CtorCopy(o, other) ==
    /\ bcobj[o] = NoObj
    /\ bcobj[other] # NoObj
    /\ bcobj' = [bcobj EXCEPT ![o] = bcobj[other]]
    /\ bclast' = BCOutcome("ctor_copy", o, FALSE)

\* BoundaryConds(const Tensor<int>& bc): an exception leaves no object
CtorTensor(o, t) ==
    /\ bcobj[o] = NoObj
    /\ IF ~is_valid_bc(t)
       THEN /\ bclast' = BCOutcome("ctor_tensor", o, TRUE)
            /\ UNCHANGED bcobj
       ELSE /\ bcobj' = [bcobj EXCEPT ![o] = t]
            /\ bclast' = BCOutcome("ctor_tensor", o, FALSE)

\* int& operator()(int d, int i): the caller stores val through the reference
AccessorWrite(o, d, i, val) ==
    /\ bcobj[o] # NoObj
    /\ IF ~(d >= 0 /\ d < NDIM /\ i >= 0 /\ i < 2)
       THEN /\ bclast' = BCOutcome("write", o, TRUE)
            /\ UNCHANGED bcobj
       ELSE /\ bcobj' = [bcobj EXCEPT
                           ![o] = [@ EXCEPT !.a[Idx(@, d, i)] = val]]
            /\ bclast' = BCOutcome("write", o, FALSE)

\* a plausible slip: the copy is made before the matrix is validated
AssignTensor_m(o, t) ==
    /\ bcobj[o] # NoObj
    /\ bcobj' = [bcobj EXCEPT ![o] = t]
    /\ bclast' = BCOutcome("assign_tensor", o, ~is_valid_bc(t))

\* operator=(const Tensor<int>& other)
AssignTensor(o, t) ==
    /\ bcobj[o] # NoObj
    /\ IF ~is_valid_bc(t)
       THEN /\ bclast' = BCOutcome("assign_tensor", o, TRUE)
            /\ UNCHANGED bcobj
       ELSE /\ bcobj' = [bcobj EXCEPT ![o] = t]
            /\ bclast' = BCOutcome("assign_tensor", o, FALSE)

\* operator=(const BoundaryConds& other)
AssignObj(o, other) ==
    /\ bcobj[o] # NoObj
    /\ bcobj[other] # NoObj
    /\ IF other # o
       THEN IF ~is_valid_bc(bcobj[other])
            THEN /\ bclast' = BCOutcome("assign_obj", o, TRUE)
                 /\ UNCHANGED bcobj
            ELSE /\ bcobj' = [bcobj EXCEPT ![o] = bcobj[other]]
                 /\ bclast' = BCOutcome("assign_obj", o, FALSE)
       ELSE /\ bclast' = BCOutcome("assign_self", o, FALSE)
            /\ UNCHANGED bcobj

\* the object goes out of scope
Destroy(o) ==
    /\ bcobj[o] # NoObj
    /\ bcobj' = [bcobj EXCEPT ![o] = NoObj]
    /\ bclast' = BCOutcome("destroy", o, FALSE)

-----------------------------------------------------------------------------
(* Neighbor resolver                                                        *)

EnforceResult(ret, l, exc) == [ret |-> ret, l |-> l, exc |-> exc]

\* a plausible slip: the periodic code is listed with the codes that have
\* no neighbour
enforce_bc_noperiodic(bc_left, bc_right, n, l) ==
    LET two2n == Pow2(n) IN
    IF l < 0
    THEN IF bc_left \in {0, 1, 2, 3, 4, 5}
         THEN EnforceResult(FALSE, l, "none")
         ELSE EnforceResult(TRUE, l, "bc_confused")
    ELSE IF l >= two2n
         THEN IF bc_right \in {0, 1, 2, 3, 4, 5}
              THEN EnforceResult(FALSE, l, "none")
              ELSE EnforceResult(TRUE, l, "bc_confused")
         ELSE EnforceResult(TRUE, l, "none")

\* a plausible slip: the underflow branch reads the right code
enforce_bc_m(bc_left, bc_right, n, l) ==
    LET two2n == Pow2(n) IN
    IF l < 0
    THEN IF bc_right \in {0, 2, 3, 4, 5}
         THEN EnforceResult(FALSE, l, "none")
         ELSE IF bc_right = 1
              THEN IF bc_left = bc_right
                   THEN EnforceResult(TRUE, l + two2n, "none")
                   ELSE EnforceResult(TRUE, l + two2n, "bc_assert")
              ELSE EnforceResult(TRUE, l, "bc_confused")
    ELSE IF l >= two2n
         THEN IF bc_right \in {0, 2, 3, 4, 5}
              THEN EnforceResult(FALSE, l, "none")
              ELSE IF bc_right = 1
                   THEN IF bc_left = bc_right
                        THEN EnforceResult(TRUE, l - two2n, "none")
                        ELSE EnforceResult(TRUE, l - two2n, "bc_assert")
                   ELSE EnforceResult(TRUE, l, "bc_confused")
         ELSE EnforceResult(TRUE, l, "none")

\* a plausible slip: the periodic branches leave the translation as it is
enforce_bc_nowrap(bc_left, bc_right, n, l) ==
    LET two2n == Pow2(n) IN
    IF l < 0
    THEN IF bc_left \in {0, 2, 3, 4, 5}
         THEN EnforceResult(FALSE, l, "none")
         ELSE IF bc_left = 1
              THEN IF bc_left = bc_right
                   THEN EnforceResult(TRUE, l, "none")
                   ELSE EnforceResult(TRUE, l, "bc_assert")
              ELSE EnforceResult(TRUE, l, "bc_confused")
    ELSE IF l >= two2n
         THEN IF bc_right \in {0, 2, 3, 4, 5}
              THEN EnforceResult(FALSE, l, "none")
              ELSE IF bc_right = 1
                   THEN IF bc_left = bc_right
                        THEN EnforceResult(TRUE, l, "none")
                        ELSE EnforceResult(TRUE, l, "bc_assert")
                   ELSE EnforceResult(TRUE, l, "bc_confused")
         ELSE EnforceResult(TRUE, l, "none")

\* static bool enforce_bc(int bc_left, int bc_right, Level n, Translation& l):
\* ret is the returned bool, l the translation left in the reference, exc the
\* assertion or exception raised ("none" when it returns)
enforce_bc(bc_left, bc_right, n, l) ==
    LET two2n == Pow2(n) IN
    IF l < 0
    THEN IF bc_left \in {0, 2, 3, 4, 5}
         THEN EnforceResult(FALSE, l, "none")
         ELSE IF bc_left = 1
              THEN IF bc_left = bc_right
                   THEN EnforceResult(TRUE, l + two2n, "none")
                   ELSE EnforceResult(TRUE, l + two2n, "bc_assert")
              ELSE EnforceResult(TRUE, l, "bc_confused")
    ELSE IF l >= two2n
         THEN IF bc_right \in {0, 2, 3, 4, 5}
              THEN EnforceResult(FALSE, l, "none")
              ELSE IF bc_right = 1
                   THEN IF bc_left = bc_right
                        THEN EnforceResult(TRUE, l - two2n, "none")
                        ELSE EnforceResult(TRUE, l - two2n, "bc_assert")
                   ELSE EnforceResult(TRUE, l, "bc_confused")
         ELSE EnforceResult(TRUE, l, "none")

NbResult(key, exc) == [key |-> key, exc |-> exc]

\* neighbor has not been called yet
NoCall == NbResult(Invalid, "nocall")

\* a plausible slip: enforce_bc takes l by value, so that the translation it
\* wrapped is lost
neighbor_m(b, ax, key, step) ==
    IF ~(ax >= 0 /\ ax < NDIM)
    THEN NbResult(Invalid, "axis_assert")
    ELSE LET e == enforce_bc(At(b, ax, 0), At(b, ax, 1), key.n,
                             key.l[ax + 1] + step)
         IN  IF e.exc # "none" THEN NbResult(Invalid, e.exc)
             ELSE IF ~e.ret THEN NbResult(Invalid, "none")
             ELSE NbResult(Key(key.n, [key.l EXCEPT ![ax + 1] = @ + step]),
                           "none")

\* Key<NDIM> neighbor(const keyT& key, int step) const, for an operator with
\* boundary tensor b and axis ax; bc(axis, i) asserts 0 <= axis < NDIM
neighbor(b, ax, key, step) ==
    IF ~(ax >= 0 /\ ax < NDIM)
    THEN NbResult(Invalid, "axis_assert")
    ELSE LET e == enforce_bc(At(b, ax, 0), At(b, ax, 1), key.n,
                             key.l[ax + 1] + step)
         IN  IF e.exc # "none" THEN NbResult(Invalid, e.exc)
             ELSE IF ~e.ret THEN NbResult(Invalid, "none")
             ELSE NbResult(Key(key.n, [key.l EXCEPT ![ax + 1] = e.l]), "none")

\* keys with every translation in range, down to level maxn
KeysTo(maxn) ==
    UNION { { Key(n, l) : l \in [1 .. NDIM -> 0 .. (Pow2(n) - 1)] } :
            n \in 0 .. maxn }

NbInputs ==
    [b : ShapedInputs, ax : {0}, key : KeysTo(MaxNbLevel), step : {-1, 1}]

\* one call of neighbor on the chosen input
NbCall ==
    /\ nbOut = NoCall
    /\ nbOut' = neighbor(nbIn.b, nbIn.ax, nbIn.key, nbIn.step)
    /\ UNCHANGED <<nbIn, nbBack>>

\* a second call of neighbor, on the key the first call returned and with
\* the opposite step
NbCallBack ==
    /\ nbOut # NoCall
    /\ nbOut.exc = "none"
    /\ ~is_invalid(nbOut.key)
    /\ nbBack = NoCall
    /\ nbBack' = neighbor(nbIn.b, nbIn.ax, nbOut.key, -nbIn.step)
    /\ UNCHANGED <<nbIn, nbOut>>

-----------------------------------------------------------------------------
(* Source tree, process map and lookups                                     *)

Root == Key(0, [i \in 1 .. NDIM |-> 0])

\* the deepest level a tree with MaxLeaves leaves can reach
MaxLevel == (MaxLeaves - 1) \div (Pow2(NDIM) - 1)

NodesOf(I) == {Root} \cup UNION { Children(key) : key \in I }

LeavesOf(I) == NodesOf(I) \ I

\* the source trees: every internal node has all its children
InternalSets ==
    { I \in SUBSET KeysTo(MaxLevel - 1) :
        /\ \A key \in I : key = Root \/ parent(key) \in I
        /\ Cardinality(LeavesOf(I)) <= MaxLeaves }

\* coeffs.probe(key): the source tree holds a node at key
HasNode(key) == key = Root \/ (key.n > 0 /\ parent(key) \in srcInternal)

\* FunctionNode::has_coeff(): reconstructed form keeps the coefficients on
\* the leaves, compressed form on the internal nodes
has_coeff(key) ==
    IF compressed THEN key \in srcInternal
    ELSE HasNode(key) /\ key \notin srcInternal

RECURSIVE SumSeq(_)
SumSeq(q) == IF q = <<>> THEN 0 ELSE Head(q) + SumSeq(Tail(q))

\* the process maps tried: worker (a * level + b * translations + c) mod the
\* number of workers.  a = b = 0 puts every key on one worker.
OwnerMaps == [a : {0, 1}, b : {0, 1}, c : {0}]

\* the process map of the runs where the map is not what is varied
HashMap == [a |-> 1, b |-> 1, c |-> 0]

\* coeffs.owner(key): the process map shared by source and destination
owner(key) == (pmap.a * key.n + pmap.b * SumSeq(key.l) + pmap.c) % NProc

\* std::pair<keyT,tensorT>, and a Future of it not yet set.  The block is
\* "empty" (size 0), "zero" (tensorT(vk)) or "coef" (the block of source
\* leaf first)
ArgSet(first, second) == [st |-> "set", first |-> first, second |-> second]

ArgPending(neigh) == [st |-> "pending", first |-> neigh, second |-> "empty"]

\* FunctionImpl::sock_it_to_me(key, ref): the node at key answers with its
\* block (empty for an internal node); a missing node passes the request to
\* its parent
RECURSIVE sock_it_to_me(_)
sock_it_to_me(key) ==
    IF HasNode(key)
    THEN IF has_coeff(key) THEN ArgSet(key, "coef") ELSE ArgSet(key, "empty")
    ELSE IF key.n <= 0 THEN ArgSet(key, "empty")
    ELSE sock_it_to_me(parent(key))

FnResult(arg, exc) == [arg |-> arg, exc |-> exc]

\* a plausible slip: tensorT() in place of tensorT(vk) for no neighbour
find_neighbor_m(key, step) ==
    LET nb == neighbor(bc, axis, key, step) IN
    IF nb.exc # "none" THEN FnResult(ArgSet(Invalid, "empty"), nb.exc)
    ELSE IF is_invalid(nb.key) THEN FnResult(ArgSet(Invalid, "empty"), "none")
    ELSE FnResult(ArgPending(nb.key), "none")

\* find_neighbor(f, key, step): a set future holding the zero block when
\* there is no neighbour, else a future the lookup task will set
find_neighbor(key, step) ==
    LET nb == neighbor(bc, axis, key, step) IN
    IF nb.exc # "none" THEN FnResult(ArgSet(Invalid, "zero"), nb.exc)
    ELSE IF is_invalid(nb.key) THEN FnResult(ArgSet(Invalid, "zero"), "none")
    ELSE FnResult(ArgPending(nb.key), "none")

-----------------------------------------------------------------------------
(* Tasks and the destination tree                                           *)

Task(type, rank, key, left, center, right) ==
    [type |-> type, rank |-> rank, key |-> key, left |-> left,
     center |-> center, right |-> right, at |-> "start"]

Call(key, left, center, right) ==
    [key |-> key, left |-> left, center |-> center, right |-> right]

FwdResult(task, exc) == [task |-> task, exc |-> exc]

\* a plausible slip: the test of the right block is left out
forward_do_diff1_noright(rank, key, left, center, right) ==
    LET o == owner(key) IN
    IF o = rank
    THEN IF left.second = "empty"
         THEN LET fn == find_neighbor(key, -1) IN
              FwdResult(Task("do_diff1", o, key, fn.arg, center, right), fn.exc)
         ELSE IF is_invalid(left.first) \/ is_invalid(right.first)
         THEN FwdResult(Task("do_diff2b", o, key, left, center, right), "none")
         ELSE FwdResult(Task("do_diff2i", o, key, left, center, right), "none")
    ELSE FwdResult(Task("forward_do_diff1", o, key, left, center, right), "none")

\* a plausible slip: the boundary path is taken only when both flanks are
\* invalid
forward_do_diff1_both(rank, key, left, center, right) ==
    LET o == owner(key) IN
    IF o = rank
    THEN IF left.second = "empty"
         THEN LET fn == find_neighbor(key, -1) IN
              FwdResult(Task("do_diff1", o, key, fn.arg, center, right), fn.exc)
         ELSE IF right.second = "empty"
         THEN LET fn == find_neighbor(key, 1) IN
              FwdResult(Task("do_diff1", o, key, left, center, fn.arg), fn.exc)
         ELSE IF is_invalid(left.first) /\ is_invalid(right.first)
         THEN FwdResult(Task("do_diff2b", o, key, left, center, right), "none")
         ELSE FwdResult(Task("do_diff2i", o, key, left, center, right), "none")
    ELSE FwdResult(Task("forward_do_diff1", o, key, left, center, right), "none")

\* a plausible slip: the test of the owner is left out and the calling
\* worker goes on itself
forward_do_diff1_local(rank, key, left, center, right) ==
    IF left.second = "empty"
    THEN LET fn == find_neighbor(key, -1) IN
         FwdResult(Task("do_diff1", rank, key, fn.arg, center, right), fn.exc)
    ELSE IF right.second = "empty"
    THEN LET fn == find_neighbor(key, 1) IN
         FwdResult(Task("do_diff1", rank, key, left, center, fn.arg), fn.exc)
    ELSE IF is_invalid(left.first) \/ is_invalid(right.first)
    THEN FwdResult(Task("do_diff2b", rank, key, left, center, right), "none")
    ELSE FwdResult(Task("do_diff2i", rank, key, left, center, right), "none")

\* a plausible slip: the new lookup is made for the neighbour of the parent,
\* the key that was looked up before
forward_do_diff1_coarse(rank, key, left, center, right) ==
    LET o == owner(key) IN
    IF o = rank
    THEN IF left.second = "empty"
         THEN LET fn == find_neighbor(parent(key), -1) IN
              FwdResult(Task("do_diff1", o, key, fn.arg, center, right), fn.exc)
         ELSE IF right.second = "empty"
         THEN LET fn == find_neighbor(parent(key), 1) IN
              FwdResult(Task("do_diff1", o, key, left, center, fn.arg), fn.exc)
         ELSE IF is_invalid(left.first) \/ is_invalid(right.first)
         THEN FwdResult(Task("do_diff2b", o, key, left, center, right), "none")
         ELSE FwdResult(Task("do_diff2i", o, key, left, center, right), "none")
    ELSE FwdResult(Task("forward_do_diff1", o, key, left, center, right), "none")

\* a plausible slip: the call that sends the task to the owner repeats the
\* centre where the right flank belongs
forward_do_diff1_fwd(rank, key, left, center, right) ==
    LET o == owner(key) IN
    IF o = rank
    THEN IF left.second = "empty"
         THEN LET fn == find_neighbor(key, -1) IN
              FwdResult(Task("do_diff1", o, key, fn.arg, center, right), fn.exc)
         ELSE IF right.second = "empty"
         THEN LET fn == find_neighbor(key, 1) IN
              FwdResult(Task("do_diff1", o, key, left, center, fn.arg), fn.exc)
         ELSE IF is_invalid(left.first) \/ is_invalid(right.first)
         THEN FwdResult(Task("do_diff2b", o, key, left, center, right), "none")
         ELSE FwdResult(Task("do_diff2i", o, key, left, center, right), "none")
    ELSE FwdResult(Task("forward_do_diff1", o, key, left, center, center),
                   "none")

\* forward_do_diff1 executed on worker rank: the task it schedules
forward_do_diff1(rank, key, left, center, right) ==
    LET o == owner(key) IN
    IF o = rank
    THEN IF left.second = "empty"
         THEN LET fn == find_neighbor(key, -1) IN
              FwdResult(Task("do_diff1", o, key, fn.arg, center, right), fn.exc)
         ELSE IF right.second = "empty"
         THEN LET fn == find_neighbor(key, 1) IN
              FwdResult(Task("do_diff1", o, key, left, center, fn.arg), fn.exc)
         ELSE IF is_invalid(left.first) \/ is_invalid(right.first)
         THEN FwdResult(Task("do_diff2b", o, key, left, center, right), "none")
         ELSE FwdResult(Task("do_diff2i", o, key, left, center, right), "none")
    ELSE FwdResult(Task("forward_do_diff1", o, key, left, center, right), "none")

\* a plausible slip: a flank found at a coarser level is refined like an
\* empty one
DoDiff1Recurs_m(t) ==
    \/ t.left.second = "empty" \/ t.right.second = "empty"
    \/ (~is_invalid(t.left.first) /\ t.left.first.n < t.key.n)

\* do_diff1: whether it recurs into the children of its key
DoDiff1Recurs(t) == t.left.second = "empty" \/ t.right.second = "empty"

\* a plausible slip: the loop over the children ends after the first child
DoDiff1Calls_first(t) ==
    IF DoDiff1Recurs(t)
    THEN { Call(child, t.left, t.center, t.center) :
           child \in { x \in Children(t.key) : (x.l[axis + 1] % 2) = 0 } }
    ELSE { Call(t.key, t.left, t.center, t.right) }

\* a plausible slip: the arguments of the call for a child are shifted by
\* one, so that a flank is passed as the centre
DoDiff1Calls_center(t) ==
    IF DoDiff1Recurs(t)
    THEN { IF (child.l[axis + 1] % 2) = 0
           THEN Call(child, t.left, t.left, t.center)
           ELSE Call(child, t.center, t.right, t.right) :
           child \in Children(t.key) }
    ELSE { Call(t.key, t.left, t.center, t.right) }

\* a plausible slip: the even child is given the right flank of the parent
\* where its sibling belongs
DoDiff1Calls_flanks(t) ==
    IF DoDiff1Recurs(t)
    THEN { IF (child.l[axis + 1] % 2) = 0
           THEN Call(child, t.left, t.center, t.right)
           ELSE Call(child, t.center, t.center, t.right) :
           child \in Children(t.key) }
    ELSE { Call(t.key, t.left, t.center, t.right) }

\* a plausible slip: the children are given the flanks of the parent
DoDiff1Calls_far(t) ==
    IF DoDiff1Recurs(t)
    THEN { Call(child, t.left, t.center, t.right) :
           child \in Children(t.key) }
    ELSE { Call(t.key, t.left, t.center, t.right) }

\* a plausible slip: the test of the child's translation is inverted
DoDiff1Calls_m(t) ==
    IF DoDiff1Recurs(t)
    THEN { IF (child.l[axis + 1] % 2) = 1
           THEN Call(child, t.left, t.center, t.center)
           ELSE Call(child, t.center, t.center, t.right) :
           child \in Children(t.key) }
    ELSE { Call(t.key, t.left, t.center, t.right) }

\* do_diff1: the forward_do_diff1 calls it makes
DoDiff1Calls(t) ==
    IF DoDiff1Recurs(t)
    THEN { IF (child.l[axis + 1] % 2) = 0
           THEN Call(child, t.left, t.center, t.center)
           ELSE Call(child, t.center, t.center, t.right) :
           child \in Children(t.key) }
    ELSE { Call(t.key, t.left, t.center, t.right) }

\* the derivative block: which source blocks fed it and whether the boundary
\* value contribution was added
DBlock(kind, left, center, right, bv) ==
    [kind |-> kind, left |-> left, center |-> center, right |-> right,
     bv |-> bv]

\* tensorT(): the block of a node without coefficients
NoBlock == DBlock("none", Invalid, Invalid, Invalid, FALSE)

\* FunctionNode(coeff, has_children) stored in the destination
DNode(coeff, has_children) == [coeff |-> coeff, has_children |-> has_children]

\* replace_coeff(key, node) on a tree held as a map
Put(tree, key, node) ==
    [x \in DOMAIN tree \cup {key} |-> IF x = key THEN node ELSE tree[x]]

\* the same write recorded in the log of writers of key
Logged(log, key, writer) ==
    [x \in DOMAIN log \cup {key} |->
        IF x = key
        THEN (IF key \in DOMAIN log THEN log[key] ELSE <<>>) \o <<writer>>
        ELSE log[x]]

RECURSIVE PutAll(_, _, _)
PutAll(tree, keys, node) ==
    IF keys = {} THEN tree
    ELSE LET key == CHOOSE x \in keys : TRUE IN
         PutAll(Put(tree, key, node), keys \ {key}, node)

RECURSIVE LoggedAll(_, _, _)
LoggedAll(log, keys, rank) ==
    IF keys = {} THEN log
    ELSE LET key == CHOOSE x \in keys : TRUE IN
         LoggedAll(Logged(log, key, [by |-> <<"impldiff", rank, key>>, n |-> 1]),
                   keys \ {key}, rank)

\* the task that writes, told apart by its kind, worker, key and flanks, and
\* the number of the write within the task
Writer(t, n) ==
    [by |-> <<t.type, t.rank, t.key, t.left.first, t.right.first>>, n |-> n]

Remove(bag, t) == bag (-) SetToBag({t})

Pending(t) == BagIn(t, tasks)

-----------------------------------------------------------------------------
(* operator()(f, fence) and impldiff on worker p                            *)

\* a plausible slip: a compressed source is let through without a fence
EntryOutcome_nofault(c, fnc) == IF c /\ fnc THEN "reconstruct" ELSE "impldiff"

\* a plausible slip: the reconstruction is left out
EntryOutcome_norecon(c, fnc) == IF c /\ ~fnc THEN "fault" ELSE "impldiff"

\* a plausible slip: reconstruct whatever the fence argument is
EntryOutcome_m(c, fnc) == IF c THEN "reconstruct" ELSE "impldiff"

\* operator(): what the test of f.is_compressed() and fence leads to
EntryOutcome(c, fnc) ==
    IF c THEN (IF fnc THEN "reconstruct" ELSE "fault") ELSE "impldiff"

\* a plausible slip: the terminal fence left out
AfterImpldiff_m(fnc) == "returned"

\* impldiff: if (fence) world.gop.fence(), then operator() returns
AfterImpldiff(fnc) == IF fnc THEN "fence" ELSE "returned"

\* a plausible slip: the empty node is inserted for every node visited
InsertsInternal_m(key) == TRUE

\* impldiff: a node without coefficients is inserted as internal and empty
InsertsInternal(key) == ~has_coeff(key)

\* f.reconstruct(): collective, ends with a fence; the coefficients move to
\* the leaves
Reconstruct ==
    /\ fault = "none"
    /\ \A p \in Procs : pc[p] = "reconstruct"
    /\ compressed' = FALSE
    /\ pc' = [p \in Procs |-> "reconstructed"]
    /\ UNCHANGED <<srcInternal, pmap, fence, opVars, tasks, df, wlog,
                   fault>>

\* a plausible slip: the center is looked up like the flanks
FirstTask_m(p, key) ==
    Task("do_diff1", p, key, find_neighbor(key, -1).arg, ArgPending(key),
         find_neighbor(key, 1).arg)

\* the do_diff1 task impldiff schedules for a local node with coefficients
FirstTask(p, key) ==
    Task("do_diff1", p, key, find_neighbor(key, -1).arg, ArgSet(key, "coef"),
         find_neighbor(key, 1).arg)

FirstExc(key) ==
    IF find_neighbor(key, -1).exc # "none" THEN find_neighbor(key, -1).exc
    ELSE find_neighbor(key, 1).exc

\* impldiff on worker p: the loop over its local nodes.  A fault raised for
\* one node stops the loop after any part of the other nodes was visited
\* (the container's iteration order is not specified).
impldiff(p) ==
    LET local  == { key \in NodesOf(srcInternal) : owner(key) = p }
        inner  == { key \in local : InsertsInternal(key) }
        coeff  == { key \in local : has_coeff(key) }
        faulty == { key \in coeff : FirstExc(key) # "none" }
    IN  IF faulty = {}
        THEN /\ tasks' = tasks (+) SetToBag({ FirstTask(p, key) : key \in coeff })
             /\ df' = PutAll(df, inner, DNode(NoBlock, TRUE))
             /\ wlog' = LoggedAll(wlog, inner, p)
             /\ pc' = [pc EXCEPT ![p] = AfterImpldiff(fence)]
             /\ UNCHANGED fault
        ELSE \E bad \in faulty, done \in SUBSET (local \ faulty) :
             /\ tasks' = tasks (+) SetToBag({ FirstTask(p, key) :
                                               key \in done \cap coeff })
             /\ df' = PutAll(df, done \cap inner, DNode(NoBlock, TRUE))
             /\ wlog' = LoggedAll(wlog, done \cap inner, p)
             /\ fault' = FirstExc(bad)
             /\ UNCHANGED pc

\* worker p calls operator()(f, fence): it faults, waits for the collective
\* reconstruct, or runs impldiff
Apply(p) ==
    /\ fault = "none"
    /\ pc[p] = "call"
    /\ LET out == EntryOutcome(compressed, fence) IN
       IF out = "fault"
       THEN /\ fault' = "compressed_nofence"
            /\ UNCHANGED <<pc, tasks, df, wlog>>
       ELSE IF out = "reconstruct"
       THEN /\ pc' = [pc EXCEPT ![p] = "reconstruct"]
            /\ UNCHANGED <<fault, tasks, df, wlog>>
       ELSE impldiff(p)
    /\ UNCHANGED <<srcInternal, pmap, compressed, fence, opVars>>

\* operator() on worker p goes on after f.reconstruct() has returned
ApplyReconstructed(p) ==
    /\ fault = "none"
    /\ pc[p] = "reconstructed"
    /\ impldiff(p)
    /\ UNCHANGED <<srcInternal, pmap, compressed, fence, opVars>>

\* world.gop.fence() returns on worker p: every worker has reached it and no
\* task is pending anywhere
FenceReturn(p) ==
    /\ fault = "none"
    /\ pc[p] = "fence"
    /\ \A q \in Procs : pc[q] \in {"fence", "returned"}
    /\ tasks = EmptyBag
    /\ pc' = [pc EXCEPT ![p] = "returned"]
    /\ UNCHANGED <<srcInternal, pmap, compressed, fence, opVars, tasks, df,
                   wlog, fault>>

-----------------------------------------------------------------------------
(* Tasks                                                                    *)

\* the value a future takes when its lookup completes
Resolved(arg) == IF arg.st = "pending" THEN sock_it_to_me(arg.first) ELSE arg

\* task t with the futures among its arguments set
WithFutures(t) ==
    [t EXCEPT !.left = Resolved(t.left), !.right = Resolved(t.right)]

\* do_diff1: the lookups behind its futures complete (the source tree does
\* not change, so what they return is fixed when they are issued) and the
\* task, which the runtime holds back until then, runs
DoDiff1(t) ==
    /\ fault = "none"
    /\ Pending(t)
    /\ t.type = "do_diff1"
    /\ IF ~(axis >= 0 /\ axis < NDIM)
       THEN /\ fault' = "axis_assert"
            /\ UNCHANGED <<tasks, df, wlog>>
       ELSE LET u    == WithFutures(t)
                res  == { forward_do_diff1(u.rank, c.key, c.left, c.center,
                                           c.right) : c \in DoDiff1Calls(u) }
                excs == { r.exc : r \in res } \ {"none"}
            IN  /\ IF DoDiff1Recurs(u)
                   THEN /\ df' = Put(df, u.key, DNode(NoBlock, TRUE))
                        /\ wlog' = Logged(wlog, u.key, Writer(u, 1))
                   ELSE UNCHANGED <<df, wlog>>
                /\ IF excs = {}
                   THEN /\ tasks' = Remove(tasks, t) (+)
                                    SetToBag({ r.task : r \in res })
                        /\ UNCHANGED fault
                   ELSE /\ fault' = CHOOSE e \in excs : TRUE
                        /\ UNCHANGED tasks
    /\ UNCHANGED <<srcInternal, pmap, compressed, fence, opVars, pc>>

\* a forward_do_diff1 task sent to the owner of its key
ForwardDoDiff1(t) ==
    /\ fault = "none"
    /\ Pending(t)
    /\ t.type = "forward_do_diff1"
    /\ LET r == forward_do_diff1(t.rank, t.key, t.left, t.center, t.right) IN
       IF r.exc = "none"
       THEN /\ tasks' = Remove(tasks, t) (+) SetToBag({r.task})
            /\ UNCHANGED fault
       ELSE /\ fault' = r.exc
            /\ UNCHANGED tasks
    /\ UNCHANGED <<srcInternal, pmap, compressed, fence, opVars, pc, df,
                   wlog>>

\* Derivative::do_diff2i
DoDiff2i(t) ==
    /\ fault = "none"
    /\ Pending(t)
    /\ t.type = "do_diff2i"
    /\ LET nl == neighbor(bc, axis, t.key, -1)
           nr == neighbor(bc, axis, t.key, 1)
       IN  IF nl.exc # "none" \/ nr.exc # "none"
           THEN /\ fault' = (IF nl.exc # "none" THEN nl.exc ELSE nr.exc)
                /\ UNCHANGED <<tasks, df, wlog>>
           ELSE /\ df' = Put(df, t.key,
                             DNode(DBlock("interior", t.left.first,
                                          t.center.first, t.right.first,
                                          FALSE), FALSE))
                /\ wlog' = Logged(wlog, t.key, Writer(t, 1))
                /\ tasks' = Remove(tasks, t)
                /\ UNCHANGED fault
    /\ UNCHANGED <<srcInternal, pmap, compressed, fence, opVars, pc>>

\* do_diff2b: l[axis] == 0 selects the left boundary
AtLeftEdge(key) == key.l[axis + 1] = 0

\* do_diff2b: the boundary code of the edge being evaluated
EdgeCode(key) == IF AtLeftEdge(key) THEN At(bc, axis, 0) ELSE At(bc, axis, 1)

\* a plausible slip: the free boundary is forgotten
StopsAfterStencil_m(code) == code = 1

\* do_diff2b: the codes for which it returns after storing the stencil result
StopsAfterStencil(code) == code = 1 \/ code = 2

\* do_diff2b: g1 serves the left boundary, g2 the right one
GSupplied(key) == IF AtLeftEdge(key) THEN hasG[1] ELSE hasG[2]

\* the stencil result of do_diff2b: one flank and the centre
StencilB(t) ==
    IF AtLeftEdge(t.key)
    THEN DBlock("left_edge", Invalid, t.center.first, t.right.first, FALSE)
    ELSE DBlock("right_edge", t.left.first, t.center.first, Invalid, FALSE)

\* Derivative::do_diff2b up to found_argT.get(): the stencil result is
\* stored, then the boundary value function is asked for its block at key.
\* get_impl() of a function that was not supplied fails.
DoDiff2b(t) ==
    /\ fault = "none"
    /\ Pending(t)
    /\ t.type = "do_diff2b"
    /\ t.at = "start"
    /\ LET nb == IF AtLeftEdge(t.key) THEN neighbor(bc, axis, t.key, 1)
                 ELSE neighbor(bc, axis, t.key, -1)
       IN  IF nb.exc # "none"
           THEN /\ fault' = nb.exc
                /\ UNCHANGED <<tasks, df, wlog>>
           ELSE /\ df' = Put(df, t.key, DNode(StencilB(t), FALSE))
                /\ wlog' = Logged(wlog, t.key, Writer(t, 1))
                /\ IF StopsAfterStencil(EdgeCode(t.key))
                   THEN /\ tasks' = Remove(tasks, t)
                        /\ UNCHANGED fault
                   ELSE IF GSupplied(t.key)
                   THEN /\ tasks' = Remove(tasks, t) (+)
                                    SetToBag({[t EXCEPT !.at = "get"]})
                        /\ UNCHANGED fault
                   ELSE /\ fault' = "g_missing"
                        /\ UNCHANGED tasks
    /\ UNCHANGED <<srcInternal, pmap, compressed, fence, opVars, pc>>

\* a plausible slip: bf = bv_left without copy, so that scaling the
\* boundary term scales the operator's own vector
DoDiff2bGet_m(t) ==
    /\ fault = "none"
    /\ Pending(t)
    /\ t.type = "do_diff2b"
    /\ t.at = "get"
    /\ df' = Put(df, t.key, DNode([StencilB(t) EXCEPT !.bv = TRUE], FALSE))
    /\ wlog' = Logged(wlog, t.key, Writer(t, 2))
    /\ tasks' = Remove(tasks, t)
    /\ stencil' = [stencil EXCEPT
                     !.bv_left = [i \in DOMAIN @ |-> 2 * @[i]],
                     !.bv_right = [i \in DOMAIN @ |-> 2 * @[i]]]
    /\ UNCHANGED <<srcInternal, pmap, compressed, fence, opclass, k, bc, axis,
                   hasG, ninit, pc, fault>>

\* do_diff2b from found_argT.get() on: the boundary contribution is added
\* and the node is stored again
DoDiff2bGet(t) ==
    /\ fault = "none"
    /\ Pending(t)
    /\ t.type = "do_diff2b"
    /\ t.at = "get"
    /\ df' = Put(df, t.key, DNode([StencilB(t) EXCEPT !.bv = TRUE], FALSE))
    /\ wlog' = Logged(wlog, t.key, Writer(t, 2))
    /\ tasks' = Remove(tasks, t)
    /\ UNCHANGED <<srcInternal, pmap, compressed, fence, opVars, pc, fault>>

-----------------------------------------------------------------------------
(* Derivative::initCoefficients.  The entries are kept as the integer       *)
(* factors of the code's expressions: rm, r0, rp in units of gammaij / 2,   *)
(* the four boundary blocks in units of gammaij / (2 k^2), bv_left and      *)
(* bv_right in units of sqrt(2i+1) / k^2, where gammaij is                  *)
(* sqrt((2i+1)(2j+1)).                                                      *)
(* An entry the code does not assign (a periodic side) keeps the zero that  *)
(* Tensor<double>(k, k) starts with.                                        *)

\* largest number of wavelets tried
MaxK == 3

\* iphase and jphase at index i of their loops: 1.0, negated every step
phase(i) == IF i % 2 = 0 THEN 1 ELSE -1

\* kphase: -1.0, or 1.0 when k is even
kphase(kk) == IF kk % 2 = 0 THEN 1 ELSE -1

\* a plausible slip: the parity of i - j is taken the other way round
Kij_m(i, j) == IF (i - j) > 0 /\ ((i - j) % 2) = 0 THEN 2 ELSE 0

\* Kij (and Klj): 2.0 for i - j positive and odd, else 0.0
Kij(i, j) == IF (i - j) > 0 /\ ((i - j) % 2) = 1 THEN 2 ELSE 0

\* phi_tmpj_left and phi_tmpj_right before their sign and scale: the sum
\* over l of sqrt(2l+1) * Klj * gammalj, in units of sqrt(2j+1)
phi_tmpj(kk, j) == SumSeq([x \in 1 .. kk |-> (2 * (x - 1) + 1) * Kij(x - 1, j)])

\* the index pairs of Tensor<double>(k, k)
Entries(kk) == (0 .. kk - 1) \X (0 .. kk - 1)

r0_ij(i, j) == 1 - phase(i) * phase(j) - 2 * Kij(i, j)
rm_ij(i, j) == phase(j)
rp_ij(i, j) == -phase(i)

left_rm_ij(kk, bc_left, i, j) ==
    IF bc_left = 4 \/ bc_left = 5
    THEN phase(j) * (kk * kk + phase(i) * kphase(kk) * kk)
    ELSE IF bc_left = 0 \/ bc_left = 3 \/ bc_left = 2
    THEN kk * kk * rm_ij(i, j)
    ELSE 0

left_r0_ij(kk, bc_left, i, j) ==
    IF bc_left = 4 \/ bc_left = 5
    THEN kk * kk + phase(i) * kphase(kk) * kk - 2 * kk * kk * Kij(i, j)
         - 2 * phase(i) * phase(j) * phi_tmpj(kk, j)
    ELSE IF bc_left = 0 \/ bc_left = 3
    THEN kk * kk * (1 - 2 * Kij(i, j))
    ELSE IF bc_left = 2
    THEN kk * kk * (1 - 2 * phase(i) * phase(j) - 2 * Kij(i, j))
    ELSE 0

right_rp_ij(kk, bc_right, i, j) ==
    IF bc_right = 4 \/ bc_right = 5
    THEN -(kk * kk * phase(i) + kphase(kk) * kk)
    ELSE IF bc_right = 0 \/ bc_right = 2 \/ bc_right = 3
    THEN kk * kk * rp_ij(i, j)
    ELSE 0

right_r0_ij(kk, bc_right, i, j) ==
    IF bc_right = 4 \/ bc_right = 5
    THEN -(phase(j) * (kk * kk * phase(i) + kphase(kk) * kk)
           + 2 * kk * kk * Kij(i, j))
         + 2 * phi_tmpj(kk, j)
    ELSE IF bc_right = 0 \/ bc_right = 3
    THEN -(kk * kk * (phase(i) * phase(j) + 2 * Kij(i, j)))
    ELSE IF bc_right = 2
    THEN kk * kk * (2 - phase(i) * phase(j) - 2 * Kij(i, j))
    ELSE 0

\* the second loop negates iphase before it uses it
bv_left_i(kk, bc_left, i) ==
    IF bc_left = 3 THEN -phase(i) * kk * kk
    ELSE IF bc_left = 5 THEN phase(i)
    ELSE 0

bv_right_i(kk, bc_right, i) ==
    IF bc_right = 3 THEN kk * kk
    ELSE IF bc_right = 5 THEN 1
    ELSE 0

Stencil(rm, r0, rp, left_rm, left_r0, right_r0, right_rp, bv_left, bv_right) ==
    [rm |-> rm, r0 |-> r0, rp |-> rp, left_rm |-> left_rm,
     left_r0 |-> left_r0, right_r0 |-> right_r0, right_rp |-> right_rp,
     bv_left |-> bv_left, bv_right |-> bv_right]

\* the nine tensors as their default constructors leave them
NoStencil == Stencil(<<>>, <<>>, <<>>, <<>>, <<>>, <<>>, <<>>, <<>>, <<>>)

\* initCoefficients() of an operator with k = kk, boundary tensor b, axis ax
initCoefficients(kk, b, ax) ==
    LET bc_left  == At(b, ax, 0)
        bc_right == At(b, ax, 1)
    IN  Stencil([e \in Entries(kk) |-> rm_ij(e[1], e[2])],
                [e \in Entries(kk) |-> r0_ij(e[1], e[2])],
                [e \in Entries(kk) |-> rp_ij(e[1], e[2])],
                [e \in Entries(kk) |-> left_rm_ij(kk, bc_left, e[1], e[2])],
                [e \in Entries(kk) |-> left_r0_ij(kk, bc_left, e[1], e[2])],
                [e \in Entries(kk) |-> right_r0_ij(kk, bc_right, e[1], e[2])],
                [e \in Entries(kk) |-> right_rp_ij(kk, bc_right, e[1], e[2])],
                [i \in 0 .. kk - 1 |-> bv_left_i(kk, bc_left, i)],
                [i \in 0 .. kk - 1 |-> bv_right_i(kk, bc_right, i)])

\* the constructors: TreeTraversal stores its arguments; Derivative then
\* runs initCoefficients, where bc(axis, 0) asserts 0 <= axis < NDIM
Construct ==
    /\ ctor = "args"
    /\ IF opclass = "Derivative"
       THEN /\ ninit' = ninit + 1
            /\ IF axis >= 0 /\ axis < NDIM
               THEN /\ stencil' = initCoefficients(k, bc, axis)
                    /\ ctor' = "built"
                    /\ UNCHANGED fault
               ELSE /\ fault' = "axis_assert"
                    /\ ctor' = "fault"
                    /\ UNCHANGED stencil
       ELSE /\ ctor' = "built"
            /\ UNCHANGED <<stencil, ninit, fault>>
    /\ UNCHANGED <<opclass, k, bc, axis, hasG, dconst>>

\* coefficient values tried for the constant blocks
ConstInputs == {-1, 1, 2}

\* do_diff2i on left = center = right at one level, the blocks holding c at
\* index 0 and zero elsewhere: d(i), in units of gammai0 / 2 times the scale
Diff2iConst(c) ==
    /\ ctor = "built"
    /\ opclass = "Derivative"
    /\ dconst = <<>>
    /\ dconst' = [i \in 0 .. k - 1 |->
                    stencil.rp[<<i, 0>>] * c + stencil.r0[<<i, 0>>] * c
                    + stencil.rm[<<i, 0>>] * c]
    /\ UNCHANGED <<opVars, fault, ctor>>

-----------------------------------------------------------------------------
(* Specification of the traversal                                           *)

\* all rows of the boundary tensor set to the pair <<l, r>>
RowFill(l, r) ==
    Tensor2(NDIM, 2, [x \in 1 .. (2 * NDIM) |-> IF x % 2 = 1 THEN l ELSE r])

DerivInput(l, r, g1, g2) == [bc |-> RowFill(l, r), g |-> <<g1, g2>>]

\* Derivative(world, k, axis, bc, g1, g2): the operators tried.  Every code
\* occurs; boundary value functions are supplied where a code is
\* inhomogeneous (3 left, 3/3), left out where it is homogeneous, and left
\* out once where one is needed (5/5).  Only tensors that the BoundaryConds
\* validation accepts are kept (that drops 1/0).
DerivInputs ==
    { d \in { DerivInput(1, 1, FALSE, FALSE), DerivInput(2, 2, FALSE, FALSE),
              DerivInput(0, 0, FALSE, FALSE), DerivInput(4, 4, TRUE, TRUE),
              DerivInput(3, 3, TRUE, TRUE), DerivInput(5, 5, FALSE, FALSE),
              DerivInput(3, 2, TRUE, FALSE), DerivInput(0, 1, FALSE, FALSE),
              DerivInput(1, 0, FALSE, FALSE) } : is_valid_bc(d.bc) }

NoTraversal ==
    /\ srcInternal = {}
    /\ pmap = HashMap
    /\ compressed = FALSE
    /\ fence = FALSE
    /\ opclass = "TreeTraversal"
    /\ k = 1
    /\ bc = Fill(NDIM, 2, 1)
    /\ axis = 0
    /\ hasG = <<FALSE, FALSE>>
    /\ stencil = NoStencil
    /\ ninit = 0
    /\ pc = [p \in Procs |-> "returned"]
    /\ tasks = EmptyBag
    /\ df = [x \in {} |-> 0]
    /\ wlog = [x \in {} |-> 0]
    /\ fault = "none"

NoBC ==
    /\ bcobj = [o \in Objs |-> NoObj]
    /\ bcArg = "none"
    /\ bclast = BCOutcome("none", 0, FALSE)

NoNb ==
    /\ nbIn = "none"
    /\ nbOut = NoCall
    /\ nbBack = NoCall

NoCtor ==
    /\ ctor = "built"
    /\ dconst = <<>>

NoVec ==
    /\ vf = <<>>
    /\ vfence = FALSE
    /\ vi = 0
    /\ vpc = "returned"
    /\ vstat = <<>>
    /\ vlog = <<>>

Init ==
    /\ srcInternal \in InternalSets
    /\ pmap = HashMap
    /\ compressed \in BOOLEAN
    /\ fence \in BOOLEAN
    /\ \E d \in DerivInputs : bc = d.bc /\ hasG = d.g
    /\ k = MaxK
    /\ \/ /\ opclass = "Derivative"
          /\ axis \in 0 .. (NDIM - 1)
          /\ stencil = initCoefficients(k, bc, axis)
          /\ ninit = 1
       \/ /\ opclass = "TreeTraversal"
          /\ axis \in {-1, NDIM}
          /\ hasG = <<FALSE, FALSE>>
          /\ stencil = NoStencil
          /\ ninit = 0
    /\ pc = [p \in Procs |-> "call"]
    /\ tasks = EmptyBag
    /\ df = [x \in {} |-> 0]
    /\ wlog = [x \in {} |-> 0]
    /\ fault = "none"
    /\ NoBC
    /\ NoNb
    /\ NoVec
    /\ NoCtor

TaskPool == BagToSet(tasks)

Next ==
    \/ \E p \in Procs : Apply(p) /\ UNCHANGED notTrav
    \/ Reconstruct /\ UNCHANGED notTrav
    \/ \E p \in Procs : ApplyReconstructed(p) /\ UNCHANGED notTrav
    \/ \E p \in Procs : FenceReturn(p) /\ UNCHANGED notTrav
    \/ \E t \in TaskPool : DoDiff1(t) /\ UNCHANGED notTrav
    \/ \E t \in TaskPool : ForwardDoDiff1(t) /\ UNCHANGED notTrav
    \/ \E t \in TaskPool : DoDiff2i(t) /\ UNCHANGED notTrav
    \/ \E t \in TaskPool : DoDiff2b(t) /\ UNCHANGED notTrav
    \/ \E t \in TaskPool : DoDiff2bGet(t) /\ UNCHANGED notTrav

Spec == Init /\ [][Next]_vars

-----------------------------------------------------------------------------
(* Specification of the traversal of a reconstructed source by a Derivative *)
(* under each of the process maps.  With the map that puts every key on     *)
(* worker 0 the other worker owns nothing and one worker does all the work. *)
(* The order k is the smallest one: the stencils do not enter the shape of  *)
(* the destination tree.                                                    *)

\* the operators tried under every process map: one periodic, one with
\* homogeneous ends, two with a boundary value function at an end
MapInputs ==
    { d \in DerivInputs :
        d.bc \in { RowFill(1, 1), RowFill(0, 0), RowFill(3, 3),
                   RowFill(3, 2) } }

InitMap ==
    /\ srcInternal \in InternalSets
    /\ pmap \in OwnerMaps
    /\ compressed = FALSE
    /\ fence = TRUE
    /\ \E d \in MapInputs : bc = d.bc /\ hasG = d.g
    /\ k = 1
    /\ opclass = "Derivative"
    /\ axis \in 0 .. (NDIM - 1)
    /\ stencil = initCoefficients(k, bc, axis)
    /\ ninit = 1
    /\ pc = [p \in Procs |-> "call"]
    /\ tasks = EmptyBag
    /\ df = [x \in {} |-> 0]
    /\ wlog = [x \in {} |-> 0]
    /\ fault = "none"
    /\ NoBC
    /\ NoNb
    /\ NoVec
    /\ NoCtor

NextMap ==
    \/ \E p \in Procs : Apply(p) /\ UNCHANGED notTrav
    \/ \E p \in Procs : FenceReturn(p) /\ UNCHANGED notTrav
    \/ \E t \in TaskPool : DoDiff1(t) /\ UNCHANGED notTrav
    \/ \E t \in TaskPool : ForwardDoDiff1(t) /\ UNCHANGED notTrav
    \/ \E t \in TaskPool : DoDiff2i(t) /\ UNCHANGED notTrav
    \/ \E t \in TaskPool : DoDiff2b(t) /\ UNCHANGED notTrav
    \/ \E t \in TaskPool : DoDiff2bGet(t) /\ UNCHANGED notTrav

SpecMap == InitMap /\ [][NextMap]_vars

-----------------------------------------------------------------------------
(* Specification of the construction of an operator                         *)

AxisInputs == -1 .. NDIM

InitCtor ==
    /\ srcInternal = {}
    /\ pmap = HashMap
    /\ compressed = FALSE
    /\ fence = FALSE
    /\ pc = [p \in Procs |-> "returned"]
    /\ tasks = EmptyBag
    /\ df = [x \in {} |-> 0]
    /\ wlog = [x \in {} |-> 0]
    /\ fault = "none"
    /\ opclass \in {"TreeTraversal", "Derivative"}
    /\ k \in 1 .. MaxK
    /\ axis \in AxisInputs
    /\ \E d \in DerivInputs : bc = d.bc /\ hasG = d.g
    /\ stencil = NoStencil
    /\ ninit = 0
    /\ ctor = "args"
    /\ dconst = <<>>
    /\ NoBC
    /\ NoNb
    /\ NoVec

NextCtor ==
    \/ Construct /\ UNCHANGED notCtor
    \/ \E c \in ConstInputs : Diff2iConst(c) /\ UNCHANGED notCtor

SpecCtor == InitCtor /\ [][NextCtor]_vars

-----------------------------------------------------------------------------
(* Specification of neighbor on bounded inputs                              *)

InitNb ==
    /\ NoTraversal
    /\ NoBC
    /\ NoVec
    /\ NoCtor
    /\ nbIn \in NbInputs
    /\ nbOut = NoCall
    /\ nbBack = NoCall

NextNb ==
    \/ NbCall /\ UNCHANGED notNb
    \/ NbCallBack /\ UNCHANGED notNb

SpecNb == InitNb /\ [][NextNb]_vars

-----------------------------------------------------------------------------
(* Specification of BoundaryConds objects under their public operations     *)

\* codes tried on objects: the two ends of the valid range, the periodic
\* code and the values next to the range
ObjCodeInputs == {-1, 0, 1, 5, 6}

\* tensors tried on objects
ObjTensorInputs ==
    { t \in TensorInputs : \A x \in DOMAIN t.a : t.a[x] \in ObjCodeInputs }

\* arguments tried for d and i of operator()(d, i)
DimInputs == -1 .. NDIM

SideInputs == -1 .. 2

InitBC ==
    /\ NoTraversal
    /\ NoNb
    /\ NoVec
    /\ NoCtor
    /\ NoBC

NextBC ==
    \/ \E o \in Objs, code \in ObjCodeInputs :
          CtorCode(o, code) /\ UNCHANGED notBC
    \/ \E o \in Objs, other \in Objs :
          CtorCopy(o, other) /\ UNCHANGED notBC
    \/ \E o \in Objs, t \in ObjTensorInputs :
          CtorTensor(o, t) /\ UNCHANGED notBC
    \/ \E o \in Objs, d \in DimInputs, i \in SideInputs, val \in ObjCodeInputs :
          AccessorWrite(o, d, i, val) /\ UNCHANGED notBC
    \/ \E o \in Objs, t \in ObjTensorInputs :
          AssignTensor(o, t) /\ UNCHANGED notBC
    \/ \E o \in Objs, other \in Objs :
          AssignObj(o, other) /\ UNCHANGED notBC
    \/ \E o \in Objs : Destroy(o) /\ UNCHANGED notBC

SpecBC == InitBC /\ [][NextBC]_vars

-----------------------------------------------------------------------------
(* Specification of the validation of one tensor: bcArg is handed to the    *)
(* tensor constructor of object 1 and assigned to object 2, which was       *)
(* default-constructed; object 1, once it exists, is assigned to object 2.  *)

InitValid ==
    /\ NoTraversal
    /\ NoNb
    /\ NoVec
    /\ NoCtor
    /\ bcArg \in TensorInputs
    /\ bcobj = [o \in Objs |-> IF o = 2 THEN Fill(NDIM, 2, 1) ELSE NoObj]
    /\ bclast = BCOutcome("none", 0, FALSE)

NextValid ==
    \/ CtorTensor(1, bcArg) /\ UNCHANGED notBC
    \/ AssignTensor(2, bcArg) /\ UNCHANGED notBC
    \/ AssignObj(2, 1) /\ UNCHANGED notBC

SpecValid == InitValid /\ [][NextValid]_vars

-----------------------------------------------------------------------------
(* Specification of the vector form operator()(vector, fence).  The scalar  *)
(* call on an element is taken as far as the vector form sees it: it faults *)
(* at entry or leaves the traversal of the element in flight, and the       *)
(* traversal (specification Spec) completes at some later time.  All        *)
(* workers run the same loop; the model follows the loop once, with the     *)
(* work in flight on all workers and the fences they share.                 *)

\* longest vector tried
MaxVec == 4

\* VMRA_CHUNK_SIZE: elements submitted between two intermediate fences
VMRA_CHUNK_SIZE == 2

\* a plausible slip: the element index is tested instead of the count
ChunkFenceDue_m(i) == (i % VMRA_CHUNK_SIZE) = 0

\* operator()(vector): the test after the scalar call on element i (0-based)
ChunkFenceDue(i) == ((i + 1) % VMRA_CHUNK_SIZE) = 0

\* the fence argument the vector form hands to the scalar form
ScalarFence(fnc) == FALSE

\* a completed world.gop.fence(): after elements were submitted; final is
\* whether it is the one behind the loop
Fence(after, final) == [after |-> after, final |-> final]

InFlight == { i \in DOMAIN vstat : vstat[i] = "inflight" }

\* one iteration of the loop up to the fence or the next iteration:
\* dvf[i] = (*this)(_vf[i], false)
VecSubmit ==
    /\ vpc = "loop"
    /\ vi < Len(vf)
    /\ LET out == EntryOutcome(vf[vi + 1], ScalarFence(vfence)) IN
       IF out = "fault"
       THEN /\ vstat' = Append(vstat, "fault")
            /\ vpc' = "fault"
            /\ UNCHANGED vi
       ELSE /\ vstat' = Append(vstat, "inflight")
            /\ vi' = vi + 1
            /\ vpc' = IF ChunkFenceDue(vi) THEN "chunkfence" ELSE "loop"
    /\ UNCHANGED <<vf, vfence, vlog>>

\* the intermediate fence returns: no work is in flight
VecChunkFence ==
    /\ vpc = "chunkfence"
    /\ InFlight = {}
    /\ vlog' = Append(vlog, Fence(vi, FALSE))
    /\ vpc' = "loop"
    /\ UNCHANGED <<vf, vfence, vi, vstat>>

\* the loop is over: if (fence) world.gop.fence(), else return
VecLoopExit ==
    /\ vpc = "loop"
    /\ vi = Len(vf)
    /\ vpc' = IF vfence THEN "finalfence" ELSE "returned"
    /\ UNCHANGED <<vf, vfence, vi, vstat, vlog>>

\* the final fence returns and so does the vector form
VecFinalFence ==
    /\ vpc = "finalfence"
    /\ InFlight = {}
    /\ vlog' = Append(vlog, Fence(vi, TRUE))
    /\ vpc' = "returned"
    /\ UNCHANGED <<vf, vfence, vi, vstat>>

\* the traversal of element i has run all its tasks
ElementDone(i) ==
    /\ vpc # "fault"
    /\ vstat[i] = "inflight"
    /\ vstat' = [vstat EXCEPT ![i] = "done"]
    /\ UNCHANGED <<vf, vfence, vi, vpc, vlog>>

VecInputs == UNION { [1 .. n -> BOOLEAN] : n \in 0 .. MaxVec }

InitVec ==
    /\ NoTraversal
    /\ NoBC
    /\ NoNb
    /\ vf \in VecInputs
    /\ vfence \in BOOLEAN
    /\ vi = 0
    /\ vpc = "loop"
    /\ vstat = <<>>
    /\ vlog = <<>>
    /\ NoCtor

NextVec ==
    \/ VecSubmit /\ UNCHANGED notVec
    \/ VecChunkFence /\ UNCHANGED notVec
    \/ VecLoopExit /\ UNCHANGED notVec
    \/ VecFinalFence /\ UNCHANGED notVec
    \/ \E i \in DOMAIN vstat :
          ElementDone(i) /\ UNCHANGED notVec

SpecVec == InitVec /\ [][NextVec]_vars

-----------------------------------------------------------------------------
(* Properties of BoundaryConds                                              *)

\* C8 (as stated): a matrix is accepted by the tensor constructor and by
\* both assignment operators exactly when it has shape NDIM x 2, every code
\* is in 0..5 and, in every dimension, both sides are periodic or neither
\* is; every other matrix is rejected with a fault.
C8_AcceptsIffWellFormed ==
    /\ bclast.op \in {"ctor_tensor", "assign_tensor"} =>
          (bclast.exc <=> ~WellFormedBC(bcArg))
    /\ bclast.op = "assign_obj" =>
          (bclast.exc <=> ~WellFormedBC(bcobj[1]))

\* C9 (as stated): whatever public operations were applied, every live
\* BoundaryConds object holds a matrix of shape NDIM x 2 with all codes in
\* 0..5 and periodic codes paired in every dimension.
C9_ObjectsWellFormed ==
    \A o \in Objs : bcobj[o] # NoObj => WellFormedBC(bcobj[o])

\* C38: an assignment that raises the exception, of a tensor or of another
\* object, leaves the matrix of every object as it was; an assignment that
\* raises nothing was given a matrix that is_valid_bc accepts, which the
\* object now holds; the assignment of an object to itself raises nothing
\* and leaves every matrix as it was.
C38_FailedAssignKeepsMatrix ==
    [][ LET o == bclast'.o IN
        /\ bclast'.op \in {"assign_tensor", "assign_obj"} =>
              IF bclast'.exc
              THEN bcobj' = bcobj
              ELSE /\ is_valid_bc(bcobj'[o])
                   /\ \/ AssignTensor(o, bcobj'[o])
                      \/ \E other \in Objs \ {o} : AssignObj(o, other)
        /\ bclast'.op = "assign_self" =>
              (~bclast'.exc /\ bcobj' = bcobj /\ AssignObj(o, o)) ]_vars

\* C38 witness: the assignment of another object was refused, and the object
\* assigned to still holds a matrix the validation accepts
C38_Witness ==
    /\ bclast.op = "assign_obj"
    /\ bclast.exc
    /\ bcobj[bclast.o] # NoObj
    /\ is_valid_bc(bcobj[bclast.o])

-----------------------------------------------------------------------------
(* Properties of neighbor                                                   *)

NonPeriodicCodes == {0, 2, 3, 4, 5}

\* the coordinate along the axis after the step of the call in nbIn
Stepped == nbIn.key.l[nbIn.ax + 1] + nbIn.step

\* the boundary tensor of nbIn with the code of side i replaced by c
WithSide(i, c) == [nbIn.b EXCEPT !.a[Idx(nbIn.b, nbIn.ax, i)] = c]

\* C10: when the stepped coordinate is below 0 and the left code is one of
\* 0, 2, 3, 4, 5, neighbor returns invalid, and does so whatever the right
\* code is; when the stepped coordinate is above 2^level - 1 and the right
\* code is one of 0, 2, 3, 4, 5, neighbor returns invalid, and does so
\* whatever the left code is.
C10_NonPeriodicEdgeInvalid ==
    nbOut # NoCall =>
       /\ (Stepped < 0 /\ At(nbIn.b, nbIn.ax, 0) \in NonPeriodicCodes) =>
             /\ nbOut = NbResult(Invalid, "none")
             /\ \A c \in CodeInputs :
                   neighbor(WithSide(1, c), nbIn.ax, nbIn.key, nbIn.step)
                      = nbOut
       /\ (Stepped >= Pow2(nbIn.key.n)
              /\ At(nbIn.b, nbIn.ax, 1) \in NonPeriodicCodes) =>
             /\ nbOut = NbResult(Invalid, "none")
             /\ \A c \in CodeInputs :
                   neighbor(WithSide(0, c), nbIn.ax, nbIn.key, nbIn.step)
                      = nbOut

\* C10 witness: a step below 0 at level 1 answered invalid although the right
\* code is periodic and the left one is not
C10_Witness ==
    /\ nbOut = NbResult(Invalid, "none")
    /\ nbIn.key.n = 1
    /\ Stepped < 0
    /\ At(nbIn.b, nbIn.ax, 0) = 3
    /\ At(nbIn.b, nbIn.ax, 1) = 1

\* C11: on an axis periodic on both sides neighbor returns, without a
\* fault and never invalid, the key of the same level whose translation is
\* 2^n - 1 for a stepped translation of -1, 0 for a stepped translation of
\* 2^n, and the stepped translation otherwise.
C11_PeriodicWraps ==
    (nbOut # NoCall /\ At(nbIn.b, nbIn.ax, 0) = 1 /\ At(nbIn.b, nbIn.ax, 1) = 1)
       => /\ nbOut.exc = "none"
          /\ ~is_invalid(nbOut.key)
          /\ nbOut.key.n = nbIn.key.n
          /\ nbOut.key.l[nbIn.ax + 1] =
                (IF Stepped = -1 THEN Pow2(nbIn.key.n) - 1
                 ELSE IF Stepped = Pow2(nbIn.key.n) THEN 0
                 ELSE Stepped)

\* C11 witness: at level 0 the neighbour of the root on a periodic axis is
\* the root
C11_Witness ==
    /\ nbOut # NoCall
    /\ At(nbIn.b, nbIn.ax, 0) = 1 /\ At(nbIn.b, nbIn.ax, 1) = 1
    /\ nbIn.key.n = 0
    /\ nbIn.step = -1
    /\ nbOut = NbResult(nbIn.key, "none")

\* C12 (as stated): for every boundary tensor the validation accepts, a step
\* that does not end at a non-periodic boundary returns a key, and the step
\* back from that key returns the key the first step started from.
C12_RoundTrip ==
    (nbOut # NoCall /\ is_valid_bc(nbIn.b)) =>
       /\ nbOut.exc = "none"
       /\ nbBack # NoCall => nbBack = NbResult(nbIn.key, "none")

\* C13 (as stated): for every boundary tensor the validation accepts,
\* neighbor returns a key or invalid and raises neither the assertion
\* bc_left == bc_right nor the 'confused BC' exception.
C13_NoConsistencyFault ==
    (nbOut # NoCall /\ is_valid_bc(nbIn.b)) =>
       nbOut.exc \notin {"bc_assert", "bc_confused"}

\* the key a call of neighbor on key returned is at the level of key, has
\* the translations of key on every axis but ax and, on ax, a translation
\* in 0 .. 2^level - 1
InDomainBeside(ret, key, ax) ==
    /\ ret.n = key.n
    /\ DOMAIN ret.l = DOMAIN key.l
    /\ \A d \in DOMAIN key.l : d # ax + 1 => ret.l[d] = key.l[d]
    /\ ret.l[ax + 1] \in 0 .. (Pow2(key.n) - 1)

-----------------------------------------------------------------------------
(* Properties of the vector form (specification SpecVec).                   *)

ChunkFences == { j \in DOMAIN vlog : ~vlog[j].final }

\* C14: the scalar call the vector form makes on an element ends as the
\* scalar form called on that element with the vector form's own fence
\* argument would: it faults at entry exactly when that call would.
C14_VectorAsScalar ==
    \A i \in DOMAIN vstat :
       (vstat[i] = "fault") <=> (EntryOutcome(vf[i], vfence) = "fault")

\* C15: whatever the fence argument is, the j-th intermediate fence comes
\* right after element j * VMRA_CHUNK_SIZE was submitted and none is left
\* out; work in flight belongs to the elements submitted since the last
\* intermediate fence, at most VMRA_CHUNK_SIZE of them; the vector form
\* returns behind one more fence exactly when fence is true, with all
\* elements submitted.
C15_ChunkFences ==
    /\ \A j \in DOMAIN vlog :
          IF vlog[j].final
          THEN /\ j = Len(vlog)
               /\ vfence
               /\ vlog[j].after = Len(vf)
               /\ vpc = "returned"
          ELSE vlog[j].after = j * VMRA_CHUNK_SIZE
    /\ Cardinality(ChunkFences) =
          (vi \div VMRA_CHUNK_SIZE) - (IF vpc = "chunkfence" THEN 1 ELSE 0)
    /\ Cardinality(InFlight) <= VMRA_CHUNK_SIZE
    /\ \A i \in InFlight : i > Cardinality(ChunkFences) * VMRA_CHUNK_SIZE
    /\ vpc = "returned" =>
          /\ vi = Len(vf)
          /\ vfence <=> (\E j \in DOMAIN vlog : vlog[j].final)
          /\ vfence => InFlight = {}

C15_Witness ==
    /\ vpc = "returned"
    /\ ~vfence
    /\ Len(vf) = 2 * VMRA_CHUNK_SIZE
    /\ vlog = <<Fence(VMRA_CHUNK_SIZE, FALSE), Fence(2 * VMRA_CHUNK_SIZE, FALSE)>>

-----------------------------------------------------------------------------
(* Properties of the traversal                                              *)

\* the source leaves
SourceLeaves == LeavesOf(srcInternal)

\* destination key holds a derivative block, or is internal with every child
\* resolved in the same way
RECURSIVE ResolvedIn(_)
ResolvedIn(key) ==
    /\ key \in DOMAIN df
    /\ IF df[key].has_children
       THEN \A child \in Children(key) : ResolvedIn(child)
       ELSE df[key].coeff # NoBlock

AllReturned == \A p \in Procs : pc[p] = "returned"

\* C1: once operator()(f, true) has returned on a worker, no task is pending
\* on any worker and every source leaf is resolved into destination entries;
\* operator()(f, false) never waits at a fence: a worker that has left the
\* call's entry has returned, whatever tasks are pending.
C1_FenceReturnsWhenDone ==
    /\ (fence /\ \E p \in Procs : pc[p] = "returned") =>
          /\ tasks = EmptyBag
          /\ \A key \in SourceLeaves : ResolvedIn(key)
    /\ ~fence => \A p \in Procs : pc[p] \in {"call", "returned"}

\* C1 witness: a fenced call has returned everywhere on a refined source
\* tree, and the destination holds derivative blocks
C1_Witness ==
    /\ fence
    /\ AllReturned
    /\ srcInternal # {}
    /\ \E key \in DOMAIN df : ~df[key].has_children

\* the traversal is over: every worker has returned and no task is pending
Quiescent == fault = "none" /\ AllReturned /\ tasks = EmptyBag

\* C2 (as stated): the traversal of a reconstructed source always runs to
\* completion, so a state from which nothing more can happen is one where
\* every worker has returned and no task is left; the only other way to stop
\* is the rejection of a compressed source.
C2_RunsToCompletion ==
    Quiescent \/ fault = "compressed_nofence" \/ ENABLED Next

\* C3: every destination key is written by one task only: all writes to a
\* key come from the same task, each write of that task at most once.
C3_OneWriterPerKey ==
    \A key \in DOMAIN wlog :
       \A i, j \in DOMAIN wlog[key] :
          /\ wlog[key][i].by = wlog[key][j].by
          /\ (i # j => wlog[key][i].n # wlog[key][j].n)

\* C3 witness: the traversal is over with internal nodes inserted by impldiff
\* and by the recursion of do_diff1 and blocks stored by the interior and the
\* boundary path
C3_Witness ==
    /\ Quiescent
    /\ \E k1, k2, k3, k4 \in DOMAIN wlog :
          /\ wlog[k1][1].by[1] = "impldiff"
          /\ wlog[k2][1].by[1] = "do_diff1"
          /\ wlog[k3][1].by[1] = "do_diff2i"
          /\ wlog[k4][1].by[1] = "do_diff2b"

\* C4 (as stated): every destination key receives exactly one write.
C4_WriteOncePerKey ==
    \A key \in DOMAIN wlog : Len(wlog[key]) = 1

C6_CompressedNoFenceFaultsFirst ==
    [][(compressed /\ ~fence) =>
          /\ fault' = "compressed_nofence"
          /\ tasks' = EmptyBag
          /\ DOMAIN df' = {}]_vars

\* C6 witness: the fault was raised
C6_Witness ==
    /\ fault = "compressed_nofence"
    /\ compressed /\ ~fence
    /\ tasks = EmptyBag /\ DOMAIN df = {}

\* C7: in a call with fence = true the compressed-source fault is never
\* raised, and as long as the source is compressed nothing has faulted, no
\* task is scheduled and no destination node is written.
C7_ReconstructsBeforeWork ==
    /\ fence => fault # "compressed_nofence"
    /\ (compressed /\ fence) =>
          /\ fault = "none"
          /\ tasks = EmptyBag
          /\ DOMAIN df = {}

\* C7 witness: after the reconstruction one worker has scheduled tasks while
\* another has not yet gone on
C7_Witness ==
    /\ fence /\ ~compressed
    /\ fault = "none"
    /\ tasks # EmptyBag
    /\ \E p \in Procs : pc[p] = "reconstructed"

\* C16: an operator whose axis is outside [0, NDIM) faults when apply is
\* entered: a worker that has left the entry of apply has met the fault, and
\* no destination node has been written.
C16_BadAxisFaultsFirst ==
    ~(axis >= 0 /\ axis < NDIM) =>
       /\ DOMAIN df = {}
       /\ \A p \in Procs : pc[p] # "call" => fault = "axis_assert"

\* C17: the traversal faults for a missing boundary value function only
\* where a side with an inhomogeneous code (3 or 5) was left without its
\* function; sides with codes 0, 1, 2 and 4 never need it.
C17_GOnlyForInhomogeneous ==
    fault = "g_missing" =>
       \E side \in {0, 1} :
          /\ At(bc, axis, side) \in {3, 5}
          /\ ~hasG[side + 1]

\* C18: in every state of a traversal by a Derivative the nine stencil
\* tensors are what initCoefficients made of k, bc and axis at construction,
\* and initCoefficients has run once.
C18_StencilImmutable ==
    opclass = "Derivative" =>
       /\ stencil = initCoefficients(k, bc, axis)
       /\ ninit = 1

C18_Witness ==
    /\ opclass = "Derivative"
    /\ At(bc, axis, 0) = 3
    /\ AllReturned
    /\ \E key \in DOMAIN df : df[key].coeff.bv

\* C19: a task that waits has not started its body: every pending task is
\* at its start, none is held inside its body by a result it waits for.
C19_TaskBodiesNeverWait == \A t \in TaskPool : t.at = "start"

-----------------------------------------------------------------------------
(* Properties of the tasks of a traversal (specification Spec).             *)

\* the pending do_diff2i and do_diff2b tasks
DiffTasks == { t \in TaskPool : t.type \in {"do_diff2i", "do_diff2b"} }

\* C21: a do_diff2i or do_diff2b task holds three blocks that are set and
\* not empty; a task with an empty flank is a do_diff1 or forward_do_diff1
\* task, which looks the neighbour up again or recurs into the children.
C21_DifferencingOnFilledBlocks ==
    \A t \in DiffTasks :
       \A a \in {t.left, t.center, t.right} :
          a.st = "set" /\ a.second # "empty"

\* C21 witness: an interior task below its source leaf, reached through the
\* recursion that an empty flank starts
C21_Witness ==
    \E t \in DiffTasks :
       /\ t.type = "do_diff2i"
       /\ t.key.n > t.center.first.n

\* C22: a differencing task is a do_diff2b exactly when one of its flank
\* keys is invalid, else a do_diff2i; for a key there is one such task, one
\* copy of it, scheduled before the key is written (a task that a fault
\* stopped in its body stays as it was), and the blocks stored at a
\* destination leaf all come from that one task.
C22_BoundaryIffInvalidFlank ==
    /\ \A t \in DiffTasks :
          /\ (t.type = "do_diff2b") <=>
                (is_invalid(t.left.first) \/ is_invalid(t.right.first))
          /\ CopiesIn(t, tasks) = 1
          /\ \A u \in DiffTasks : u.key = t.key => u = t
          /\ (fault = "none" /\ t.at = "start") => t.key \notin DOMAIN df
    /\ \A key \in DOMAIN df :
          ~df[key].has_children =>
             /\ wlog[key][1].by[1] \in {"do_diff2i", "do_diff2b"}
             /\ (wlog[key][1].by[1] = "do_diff2b") <=>
                   (is_invalid(wlog[key][1].by[4])
                    \/ is_invalid(wlog[key][1].by[5]))
             /\ \A i \in DOMAIN wlog[key] : wlog[key][i].by = wlog[key][1].by
             /\ fault = "none" =>
                   \A t \in DiffTasks : t.key = key => t.at = "get"

\* C22 witness: the traversal is over and the destination holds an interior
\* block and a boundary block
C22_Witness ==
    /\ fault = "none"
    /\ tasks = EmptyBag
    /\ \E key1, key2 \in DOMAIN df :
          /\ df[key1].coeff.kind = "interior"
          /\ df[key2].coeff.kind \in {"left_edge", "right_edge"}

\* C23: every task is queued on the owner of its key and every destination
\* write to a key was made on the owner of that key; what a non-owner sent
\* on is a forward_do_diff1 task with blocks that are set.
C23_RunsOnOwner ==
    /\ \A t \in TaskPool :
          /\ t.rank = owner(t.key)
          /\ t.type = "forward_do_diff1" =>
                t.left.st = "set" /\ t.right.st = "set"
    /\ \A key \in DOMAIN wlog :
          \A i \in DOMAIN wlog[key] :
             /\ wlog[key][i].by[2] = owner(key)
             /\ wlog[key][i].by[3] = key

\* C23 witness: a child was sent on to its owner, and a write has been made
C23_Witness ==
    /\ \E t \in TaskPool : t.type = "forward_do_diff1"
    /\ DOMAIN wlog # {}

\* the tasks a step takes from the queue and the tasks it puts there
Removed == { t \in BagToSet(tasks) : CopiesIn(t, tasks') < CopiesIn(t, tasks) }

Added == { x \in BagToSet(tasks') : CopiesIn(x, tasks') > CopiesIn(x, tasks) }

\* the far flank handed to a child: the parent's flank, which
\* forward_do_diff1 on the owner of the child replaces by a new lookup for
\* the child's neighbour when it is empty
FarFlank(t, flank, child, step) ==
    IF flank.second = "empty" /\ owner(child) = t.rank
    THEN find_neighbor(child, step).arg
    ELSE flank

\* C24: a step of do_diff1 that finds an empty flank stores key as internal
\* and empty and leaves, for each of the 2^NDIM children, one new task: an
\* even child has the parent's center as its right flank and the parent's
\* left flank on its left, an odd child the parent's center as its left
\* flank and the parent's right flank on its right; all have the parent's
\* center as theirs.
C24_ChildrenInheritFlanks ==
    [][\A t \in Removed :
          (t.type = "do_diff1" /\ DoDiff1Recurs(WithFutures(t))) =>
             LET u == WithFutures(t) IN
             /\ t.key \in DOMAIN df'
             /\ df'[t.key] = DNode(NoBlock, TRUE)
             /\ Cardinality(Children(t.key)) = Pow2(NDIM)
             /\ Cardinality(Added) = Pow2(NDIM)
             /\ \A child \in Children(t.key) :
                   \E x \in Added :
                      /\ x.key = child
                      /\ CopiesIn(x, tasks') = 1
                      /\ x.center = u.center
                      /\ IF (child.l[axis + 1] % 2) = 0
                         THEN /\ x.right = u.center
                              /\ x.left = FarFlank(t, u.left, child, -1)
                         ELSE /\ x.left = u.center
                              /\ x.right = FarFlank(t, u.right, child, 1)]_vars

\* C24 witness: do_diff1 has recurred (its key is stored as internal) and
\* both children's tasks are pending
C24_Witness ==
    \E key \in DOMAIN wlog :
       /\ wlog[key][1].by[1] = "do_diff1"
       /\ \A child \in Children(key) : \E t \in TaskPool : t.key = child

\* the flank of task u on side step (-1 left, 1 right)
FlankOn(u, step) == IF step = -1 THEN u.left ELSE u.right

\* C25: a step that puts a task with a pending lookup on side s in place of
\* a task it took from the queue has found that task's flank on side s
\* empty, and the lookup is for a key at the level of the new task's key,
\* one level below the key the empty block came from; the keys of the tasks
\* a step puts in the queue are never coarser than the key of the task it
\* took, and one level finer when do_diff1 recurs; and all writes to a
\* destination key come from one task.
C25_LookupsOneLevelFiner ==
    [][/\ \A t \in Removed, x \in Added :
             LET u == WithFutures(t) IN
             /\ x.key.n >= t.key.n
             /\ (t.type = "do_diff1" /\ DoDiff1Recurs(u)) =>
                   x.key.n = t.key.n + 1
             /\ \A s \in {-1, 1} :
                   FlankOn(x, s).st = "pending" =>
                      /\ FlankOn(u, s).second = "empty"
                      /\ FlankOn(x, s).first.n = FlankOn(u, s).first.n + 1
                      /\ FlankOn(x, s).first.n = x.key.n
       /\ \A key \in DOMAIN wlog' :
             \A i \in DOMAIN wlog'[key] : wlog'[key][i].by = wlog'[key][1].by
      ]_vars

\* C25 witness: a task below its source leaf waits for a new lookup
C25_Witness ==
    \E t \in TaskPool :
       /\ t.type = "do_diff1"
       /\ t.key.n > t.center.first.n
       /\ \E s \in {-1, 1} : FlankOn(t, s).st = "pending"

\* worker p has run impldiff to its end
PastImpldiff(p) == pc[p] \in {"fence", "returned"}

vk == [i \in 1 .. NDIM |-> k]

RECURSIVE Product(_)
Product(q) == IF q = <<>> THEN 1 ELSE Head(q) * Product(Tail(q))

\* Tensor::size() of a block: tensorT() has no element, tensorT(vk) and a
\* block of coefficients have k^NDIM
size(second) == IF second = "empty" THEN 0 ELSE Product(vk)

\* C27: a flank with the invalid key is a set future that holds the zero
\* block, whose size is not 0, and no lookup is pending for the invalid key;
\* the zero block goes with the invalid key only.
C27_InvalidFlankIsZeroBlock ==
    \A t \in TaskPool :
       \A s \in {-1, 1} :
          LET a == FlankOn(t, s) IN
          /\ is_invalid(a.first) =>
                /\ a = ArgSet(Invalid, "zero")
                /\ size(a.second) # 0
          /\ a.second = "zero" => is_invalid(a.first)

\* C27 witness: the boundary path is pending for a key below the root with
\* the invalid key on its left
C27_Witness ==
    \E t \in TaskPool :
       /\ t.type = "do_diff2b"
       /\ t.key.n >= 1
       /\ t.left = ArgSet(Invalid, "zero")

\* C28 (as stated): a do_diff2b task has one invalid flank, the left one for
\* a key with translation 0 along the axis and the right one otherwise, and
\* the other flank is a block of the source.
C28_OneRealFlank ==
    \A t \in DiffTasks :
       t.type = "do_diff2b" =>
          IF AtLeftEdge(t.key)
          THEN /\ is_invalid(t.left.first)
               /\ ~is_invalid(t.right.first)
               /\ t.right.second = "coef"
          ELSE /\ is_invalid(t.right.first)
               /\ ~is_invalid(t.left.first)
               /\ t.left.second = "coef"

\* C29: a key whose block the boundary path stored for an edge with code 1
\* or 2 has that one write and no task left: the task has returned without
\* asking for a boundary value function.
C29_HomogeneousEdgeStops ==
    \A key \in DOMAIN wlog :
       (wlog[key][1].by[1] = "do_diff2b" /\ EdgeCode(key) \in {1, 2}) =>
          /\ Len(wlog[key]) = 1
          /\ \A t \in TaskPool : t.key # key

\* C29 witness: the right edge is free and the left one is not; a block has
\* been stored at the right edge
C29_Witness ==
    /\ axis = 0
    /\ At(bc, axis, 0) = 3
    /\ At(bc, axis, 1) = 2
    /\ \E key \in DOMAIN wlog :
          /\ wlog[key][1].by[1] = "do_diff2b"
          /\ ~AtLeftEdge(key)

\* the ancestor of key at level n (key itself at its own level or below)
RECURSIVE AncestorAt(_, _)
AncestorAt(key, n) == IF key.n <= n THEN key ELSE AncestorAt(parent(key), n)

-----------------------------------------------------------------------------
(* Properties of the recursion (specification Spec).                        *)

\* C31: the centre of every pending task is a set future that holds the
\* block of a source leaf, and that leaf is the key of the task or an
\* ancestor of it.  A key has one source leaf on its path to the root, so
\* the centre of a task is the leaf the traversal started from, through
\* every recursion and every new lookup.
C31_CenterIsSourceLeaf ==
    \A t \in TaskPool :
       /\ t.center.st = "set"
       /\ t.center.second = "coef"
       /\ has_coeff(t.center.first)
       /\ t.center.first.n <= t.key.n
       /\ AncestorAt(t.key, t.center.first.n) = t.center.first

\* C31 witness: below its source leaf a do_diff1 task waits for a flank that
\* is looked up again, with the leaf's block as its centre
C31_Witness ==
    \E t \in TaskPool :
       /\ t.type = "do_diff1"
       /\ t.key.n > t.center.first.n
       /\ t.center = ArgSet(parent(t.key), "coef")
       /\ t.left.st = "pending" \/ t.right.st = "pending"

\* the largest element of a set of levels
RECURSIVE MaxOf(_)
MaxOf(S) ==
    IF S = {} THEN 0
    ELSE LET x == CHOOSE y \in S : TRUE
             m == MaxOf(S \ {x})
         IN  IF x > m THEN x ELSE m

\* the source tree has nodes at level n: the root, or the children of an
\* internal node of level n - 1 or below
SourceReaches(n) == n = 0 \/ \E key \in srcInternal : key.n + 1 >= n

\* C34: no task runs on a key, and the destination holds no key, at a level
\* the source tree does not reach: do_diff1 makes the children of a key
\* only when the source has nodes at their level.
C34_NoDeeperThanSource ==
    /\ \A t \in TaskPool : SourceReaches(t.key.n)
    /\ \A key \in DOMAIN df : SourceReaches(key.n)

\* C34 witness: the destination holds a key the source does not have, below
\* a source leaf, at the deepest level of the source
C34_Witness ==
    \E key \in DOMAIN df :
       /\ ~HasNode(key)
       /\ ~SourceReaches(key.n + 1)
       /\ parent(key) \in SourceLeaves

\* key is at an end of the axis whose boundary code is not periodic
AtNonPeriodicEdge(key) ==
    \/ key.l[axis + 1] = 0 /\ At(bc, axis, 0) # 1
    \/ key.l[axis + 1] = Pow2(key.n) - 1 /\ At(bc, axis, 1) # 1

\* C35: a pending do_diff2b task, and a destination block that do_diff2b
\* made, has a key at an end of the axis whose code is not periodic, and
\* each invalid flank of a task lies at such an end; so on an axis periodic
\* on both sides no task has an invalid flank and do_diff2b never runs.
C35_BoundaryOnlyAtNonPeriodicEdge ==
    /\ \A t \in TaskPool :
          /\ t.type = "do_diff2b" => AtNonPeriodicEdge(t.key)
          /\ (t.left.st = "set" /\ is_invalid(t.left.first)) =>
                (t.key.l[axis + 1] = 0 /\ At(bc, axis, 0) # 1)
          /\ (t.right.st = "set" /\ is_invalid(t.right.first)) =>
                (t.key.l[axis + 1] = Pow2(t.key.n) - 1 /\ At(bc, axis, 1) # 1)
    /\ \A key \in DOMAIN df :
          df[key].coeff.kind \in {"left_edge", "right_edge"} =>
             AtNonPeriodicEdge(key)

\* C35 witness: the traversal is over; do_diff2b has run on the last box of
\* a level below the root, at a right end that is not periodic, and
\* do_diff2i on a box inside the domain
C35_Witness ==
    /\ AllReturned
    /\ tasks = EmptyBag
    /\ \E key \in DOMAIN wlog :
          /\ key.n >= 1 /\ key.l[axis + 1] = Pow2(key.n) - 1
          /\ wlog[key][1].by[1] = "do_diff2b"
    /\ \E key \in DOMAIN wlog : wlog[key][1].by[1] = "do_diff2i"

\* the block of an argument is empty once its lookup has completed
EmptyFlank(arg) == Resolved(arg).second = "empty"

\* C37: every call of forward_do_diff1, made by a pending do_diff1 task when
\* it runs or carried by a forward_do_diff1 task, has at most one empty
\* flank; a do_diff1 task with two empty flanks is the task impldiff made
\* for a source leaf; a task made by forward_do_diff1 looks up one flank and
\* holds a block that is not empty on the other side; no do_diff2i or
\* do_diff2b task has an empty right flank.
C37_AtMostOneEmptyFlank ==
    \A t \in TaskPool :
       /\ t.type = "do_diff1" =>
             /\ \A c \in DoDiff1Calls(WithFutures(t)) :
                   ~(c.left.second = "empty" /\ c.right.second = "empty")
             /\ (EmptyFlank(t.left) /\ EmptyFlank(t.right)) =>
                   t = FirstTask(t.rank, t.key)
             /\ t # FirstTask(t.rank, t.key) =>
                   \/ /\ t.left.st = "pending"
                      /\ t.right.st = "set" /\ t.right.second # "empty"
                   \/ /\ t.right.st = "pending"
                      /\ t.left.st = "set" /\ t.left.second # "empty"
       /\ t.type = "forward_do_diff1" =>
             ~(t.left.second = "empty" /\ t.right.second = "empty")
       /\ t \in DiffTasks => t.right.second # "empty"

\* C37 witness: the first do_diff1 task of a source leaf whose two
\* neighbours are both internal nodes of the source
C37_Witness ==
    \E t \in TaskPool :
       /\ t.type = "do_diff1"
       /\ t = FirstTask(t.rank, t.key)
       /\ EmptyFlank(t.left) /\ EmptyFlank(t.right)

-----------------------------------------------------------------------------
(* Properties of the destination tree (specification Spec).                 *)

\* the traversal is over: every worker has left operator(), no task is
\* pending and nothing has faulted
Completed == AllReturned /\ tasks = EmptyBag /\ fault = "none"

\* the destination keys without children
DestLeaves == { key \in DOMAIN df : ~df[key].has_children }

\* the boxes of level n along the axis
BoxesAt(n) == { Key(n, l) : l \in [1 .. NDIM -> 0 .. (Pow2(n) - 1)] }

\* C32: when the traversal is over, the destination holds every key of the
\* source; the internal nodes of the source are internal and without
\* coefficients in the destination; every internal node of the destination
\* has all its children; every destination leaf holds a derivative block;
\* and every box of the deepest destination level lies in exactly one
\* destination leaf.
C32_DestinationRefinesSource ==
    Completed =>
       /\ ~compressed
       /\ \A key \in NodesOf(srcInternal) : key \in DOMAIN df
       /\ \A key \in srcInternal : df[key] = DNode(NoBlock, TRUE)
       /\ \A key \in DOMAIN df :
             IF df[key].has_children
             THEN /\ df[key].coeff = NoBlock
                  /\ \A child \in Children(key) : child \in DOMAIN df
             ELSE df[key].coeff # NoBlock
       /\ \A box \in BoxesAt(MaxOf({ key.n : key \in DOMAIN df })) :
             Cardinality({ key \in DestLeaves :
                             AncestorAt(box, key.n) = key }) = 1

\* C32 witness: the traversal is over and the destination is finer than the
\* source: a source leaf has become internal
C32_Witness ==
    /\ Completed
    /\ \E key \in SourceLeaves : df[key].has_children

-----------------------------------------------------------------------------
(* Properties of the destination tree under every process map              *)
(* (specification SpecMap).                                                 *)

\* The destination entries one source leaf gives rise to, when each step is
\* taken at once and in the order of the code: ForCall follows the tests of
\* forward_do_diff1 on the owner, ForNode those of do_diff1 on arguments
\* whose lookups have completed.  Neither reads a rank or the process map.
RECURSIVE ForCall(_), ForNode(_)
ForCall(c) ==
    IF c.left.second = "empty"
    THEN ForNode([c EXCEPT !.left = Resolved(find_neighbor(c.key, -1).arg)])
    ELSE IF c.right.second = "empty"
    THEN ForNode([c EXCEPT !.right = Resolved(find_neighbor(c.key, 1).arg)])
    ELSE IF is_invalid(c.left.first) \/ is_invalid(c.right.first)
    THEN { <<c.key,
             DNode([StencilB(c) EXCEPT
                      !.bv = ~StopsAfterStencil(EdgeCode(c.key))], FALSE)>> }
    ELSE { <<c.key,
             DNode(DBlock("interior", c.left.first, c.center.first,
                          c.right.first, FALSE), FALSE)>> }

ForNode(c) ==
    IF DoDiff1Recurs(c)
    THEN { <<c.key, DNode(NoBlock, TRUE)>> }
            \cup UNION { ForCall(x) : x \in DoDiff1Calls(c) }
    ELSE ForCall(c)

\* the destination tree of the source, the axis and the boundary conditions
SequentialTree ==
    { <<key, DNode(NoBlock, TRUE)>> : key \in srcInternal }
       \cup UNION { ForNode(Call(key,
                                 Resolved(find_neighbor(key, -1).arg),
                                 ArgSet(key, "coef"),
                                 Resolved(find_neighbor(key, 1).arg))) :
                    key \in SourceLeaves }

\* C33: when the traversal is over, the destination tree (its keys, which
\* of them are internal, and the three source keys whose blocks fed each
\* leaf) is the tree that the source, the axis and the boundary conditions
\* determine, whatever the order in which lookups and tasks ran, whichever
\* process map was in use and whether one worker or two did the work.
C33_TreeSameForEverySchedule ==
    Completed => { <<key, df[key]>> : key \in DOMAIN df } = SequentialTree

\* C33 witness: the traversal is over on a source tree with a leaf whose
\* neighbour is refined, under a process map that sends tasks from worker
\* to worker
C33_Witness ==
    /\ Completed
    /\ pmap.b = 1
    /\ \E key \in SourceLeaves : df[key].has_children
    /\ \E key \in DOMAIN df : owner(key) # owner(parent(key))

-----------------------------------------------------------------------------
(* Properties of the constructors (specification SpecCtor).                 *)

\* C20: in a constructed Derivative of any order k the entries of column 0
\* of rp, r0 and rm cancel in every row (on the integer factors of
\* gamma(i,0)), and do_diff2i on three equal blocks that hold only the
\* constant coefficient gives the zero block.
C20_ConstantRowsCancel ==
    (ctor = "built" /\ opclass = "Derivative") =>
       /\ \A i \in 0 .. k - 1 :
             stencil.rp[<<i, 0>>] + stencil.r0[<<i, 0>>]
             + stencil.rm[<<i, 0>>] = 0
       /\ \A i \in DOMAIN dconst : dconst[i] = 0

C20_Witness ==
    /\ ctor = "built"
    /\ opclass = "Derivative"
    /\ k = MaxK
    /\ DOMAIN dconst = 0 .. k - 1

=============================================================================
